---- MODULE Spec2Model ----
(***************************************************************************)
(* Model of the referential bulk loader of src/main.py: main() drives the  *)
(* tables of csv_mappings in order inside one transaction, resolves the    *)
(* foreign-key placeholders of every row against csv_row_to_db_id_maps and *)
(* hands the rows to insert_processed_data, which isolates each row with a *)
(* savepoint.  The relational sink (PostgreSQL behind psycopg2) is         *)
(* modelled by its observable behaviour: constraint checks, sequences,     *)
(* the aborted-transaction state and the loss of the connection.  The      *)
(* reconciler of src/debug.py, which reads the same files and the same     *)
(* sink, is modelled after the loader, followed by src/alter.py, the       *)
(* insert statement for any column map, get_lat_lon of src/app.py and the  *)
(* savepoint names.                                                        *)
(***************************************************************************)
EXTENDS Integers, Sequences, FiniteSets, TLC

(***************************************************************************)
(* Bounds of the model.                                                    *)
(***************************************************************************)
\* longest dataset (data rows of one CSV file)
MaxRows == 2
\* sink faults (lost connection, cancelled statement) injected in one run
MaxFaults == 1
\* most rows of the "order" table alter.py is run against
MaxOrders == 3
\* most calls of the geocoder for one location in app.py
MaxCalls == 2
\* greatest row index for which savepoint names are compared
MaxIndex == 11

(***************************************************************************)
(* Values.  A CSV field is a string, modelled as a sequence of characters; *)
(* a processed row may also hold a database id (int) or None.              *)
(***************************************************************************)
Str(s) == [tag |-> "str", s |-> s, n |-> 0]
Int_(n) == [tag |-> "int", s |-> <<>>, n |-> n]
None == [tag |-> "none", s |-> <<>>, n |-> 0]

\* characters int() accepts as decimal digits
DecDigits == {"0", "1", "2", "3", "4", "5", "6", "7", "8", "9"}
\* str.isdigit() is also true of digit-like characters int() rejects
\* (superscript two, written "sup2" here)
OtherDigits == {"sup2"}

DigitVal(c) ==
  CASE c = "0" -> 0 [] c = "1" -> 1 [] c = "2" -> 2 [] c = "3" -> 3
    [] c = "4" -> 4 [] c = "5" -> 5 [] c = "6" -> 6 [] c = "7" -> 7
    [] c = "8" -> 8 [] c = "9" -> 9

\* placeholder_val_str.isdigit()
isdigit(s) == Len(s) > 0 /\ \A k \in 1..Len(s) : s[k] \in DecDigits \cup OtherDigits

\* int(placeholder_val_str) raises ValueError
int_raises(s) == Len(s) = 0 \/ \E k \in 1..Len(s) : s[k] \notin DecDigits

RECURSIVE int(_)
\* int(placeholder_val_str), for a string of decimal digits
int(s) == IF Len(s) = 0 THEN 0
          ELSE 10 * int(SubSeq(s, 1, Len(s) - 1)) + DigitVal(s[Len(s)])

\* Python truthiness of a value: `if placeholder_val_str`, `if actual_db_id`
truthy(v) ==
  CASE v.tag = "none" -> FALSE
    [] v.tag = "str" -> Len(v.s) > 0
    [] v.tag = "int" -> v.n # 0

(***************************************************************************)
(* csv_mappings (src/main.py:206-602), restricted to a parent with a       *)
(* natural key and a child that references it by 1-based row index.        *)
(***************************************************************************)
\* mutant of csv_mappings_keys: Salary is declared before Employee
csv_mappings_keys_child_first ==
  << "Car_Condition_Rating", "Engine_Type_Lookup", "Transmission_Type_Lookup",
     "Drivetrain_Type_Lookup", "Auction_Supplier", "Salary", "Customer", "Car",
     "Employee", "Saved_Address", "Customer_Preference", "Shopping_Cart", "Wishlist",
     "Search_History", "Customer_Activity_Log", "Order", "Cart_Item",
     "Wishlist_Item", "Product_View_History", "Review", "Order_Item",
     "Payment_Transaction", "Shipping_Logistics" >>

\* the keys of csv_mappings in the order the dict literal declares them, the
\* order `for config_key, config_values in csv_mappings.items()` follows
csv_mappings_keys ==
  << "Car_Condition_Rating", "Engine_Type_Lookup", "Transmission_Type_Lookup",
     "Drivetrain_Type_Lookup", "Auction_Supplier", "Employee", "Customer", "Car",
     "Salary", "Saved_Address", "Customer_Preference", "Shopping_Cart", "Wishlist",
     "Search_History", "Customer_Activity_Log", "Order", "Cart_Item",
     "Wishlist_Item", "Product_View_History", "Review", "Order_Item",
     "Payment_Transaction", "Shipping_Logistics" >>

\* the elements of a sequence
Range(s) == {s[k] : k \in 1..Len(s)}

\* "parent_config_key" of every entry of "fk_configs", per key of csv_mappings
parent_config_keys ==
  [t \in Range(csv_mappings_keys) |->
     CASE t = "Car" -> {"Engine_Type_Lookup", "Transmission_Type_Lookup",
                        "Drivetrain_Type_Lookup", "Car_Condition_Rating",
                        "Auction_Supplier"}
       [] t = "Salary" -> {"Employee"}
       [] t \in {"Saved_Address", "Customer_Preference", "Shopping_Cart", "Wishlist",
                 "Search_History", "Customer_Activity_Log"} -> {"Customer"}
       [] t = "Order" -> {"Customer", "Employee"}
       [] t = "Cart_Item" -> {"Shopping_Cart", "Car"}
       [] t = "Wishlist_Item" -> {"Wishlist", "Car"}
       [] t \in {"Product_View_History", "Review"} -> {"Customer", "Car"}
       [] t = "Order_Item" -> {"Order", "Car"}
       [] t = "Payment_Transaction" -> {"Order"}
       [] t = "Shipping_Logistics" -> {"Order_Item"}
       [] OTHER -> {}]

\* the tables whose load is modelled: a parent with a natural key and a child
\* that references it
Modelled(t) == t \in {"Employee", "Salary"}

csv_mappings == SelectSeq(csv_mappings_keys, Modelled)
Tables == Range(csv_mappings)

\* "natural_key_columns": Employee has ["email"], Salary has none
natural_key_columns == [t \in Tables |-> t = "Employee"]

\* "fk_configs": Salary.employee_id -> Employee; the parent of each table with
\* a foreign key ("" for none)
fk_configs ==
  [t \in Tables |-> IF parent_config_keys[t] = {} THEN ""
                    ELSE CHOOSE p \in parent_config_keys[t] : TRUE]

(***************************************************************************)
(* TABLE_CONFIGS and PROCESSING_ORDER of the reconciler (src/debug.py).    *)
(***************************************************************************)
PROCESSING_ORDER ==
  << "Car_Condition_Rating", "Engine_Type_Lookup", "Transmission_Type_Lookup",
     "Drivetrain_Type_Lookup", "Auction_Supplier", "Employee", "Customer", "Car",
     "Salary", "Saved_Address", "Customer_Preference", "Shopping_Cart", "Wishlist",
     "Search_History", "Customer_Activity_Log", "Order", "Cart_Item",
     "Wishlist_Item", "Product_View_History", "Review", "Order_Item",
     "Payment_Transaction", "Shipping_Logistics", "Activity_Data" >>

\* per table of TABLE_CONFIGS, whether "natural_key_in_csv" is set and the
\* "parent_config_key" of every entry of "fk_configs"
TABLE_CONFIGS ==
  [t \in Range(PROCESSING_ORDER) |->
     [ natural_key_in_csv |->
         t \in {"Car_Condition_Rating", "Engine_Type_Lookup", "Transmission_Type_Lookup",
                "Drivetrain_Type_Lookup", "Auction_Supplier", "Employee", "Customer",
                "Car", "Shipping_Logistics", "Activity_Data"},
       fk_configs |->
         CASE t = "Car" -> {"Engine_Type_Lookup", "Transmission_Type_Lookup",
                            "Drivetrain_Type_Lookup", "Car_Condition_Rating",
                            "Auction_Supplier"}
           [] t = "Salary" -> {"Employee"}
           [] t \in {"Saved_Address", "Customer_Preference", "Shopping_Cart", "Wishlist",
                     "Search_History", "Customer_Activity_Log"} -> {"Customer"}
           [] t = "Order" -> {"Customer", "Employee"}
           [] t = "Cart_Item" -> {"Shopping_Cart", "Car"}
           [] t = "Wishlist_Item" -> {"Wishlist", "Car"}
           [] t \in {"Product_View_History", "Review"} -> {"Customer", "Car"}
           [] t \in {"Order_Item", "Shipping_Logistics"} -> {"Order", "Car"}
           [] t = "Payment_Transaction" -> {"Order"}
           [] t = "Activity_Data" -> {"Customer_Activity_Log", "Wishlist_Item", "Cart_Item"}
           [] OTHER -> {} ]]

(***************************************************************************)
(* Rows.  Every row has four mapped columns (csv_to_db_column_map keeps    *)
(* the names): key, a UNIQUE column (Employee.email, the natural key;      *)
(* Salary.from_date); alt, a second UNIQUE column (Employee.phone_number); *)
(* req, a NOT NULL column (Employee.hire_date, src/main.py:277); fk, the   *)
(* foreign-key column (Salary.employee_id, NOT NULL, src/main.py:353).     *)
(***************************************************************************)
Row(key, alt, req, fk) == [key |-> key, alt |-> alt, req |-> req, fk |-> fk]
Blank == Str(<<>>)

\* the rows an employee.csv may hold: a full row, one with blank email and
\* phone number, the full row without its hire date, and one with a blank
\* email and the phone number of the full row
EmployeeRows ==
  { Row(Str(<<"a">>), Str(<<"p">>), Str(<<"x">>), Blank),
    Row(Blank, Blank, Str(<<"x">>), Blank),
    Row(Str(<<"a">>), Str(<<"p">>), Blank, Blank),
    Row(Blank, Str(<<"p">>), Str(<<"x">>), Blank) }

\* the rows a salary.csv may hold: the placeholders "1" (with a from_date),
\* "2", blank, "abc" and a superscript two
SalaryRows ==
  { Row(Str(<<"d">>), Blank, Str(<<"x">>), Str(<<"1">>)),
    Row(Blank, Blank, Str(<<"x">>), Str(<<"2">>)),
    Row(Blank, Blank, Str(<<"x">>), Blank),
    Row(Blank, Blank, Str(<<"x">>), Str(<<"a", "b", "c">>)),
    Row(Blank, Blank, Str(<<"x">>), Str(<<"sup2">>)) }

RowsOf(t) == IF t = "Employee" THEN EmployeeRows ELSE SalaryRows

\* sequences of at most n elements of S
SeqUpTo(S, n) == UNION {[1..m -> S] : m \in 0..n}

\* A dataset file: absent, zero bytes long, present but unreadable (open() or
\* the decoding fails), or readable with its data rows (none for a file that
\* holds only the header).
Datasets(t) ==
  { [status |-> "missing", rows |-> <<>>], [status |-> "empty", rows |-> <<>>],
    [status |-> "unreadable", rows |-> <<>>] }
  \cup { [status |-> "ok", rows |-> r] : r \in SeqUpTo(RowsOf(t), MaxRows) }

\* mutant of read_csv_data: an absent file is reported like any other read
\* failure
read_csv_data_no_exists_check(f) ==
  IF f.status \in {"missing", "unreadable"} THEN [raised |-> "Exception", data |-> <<>>]
  ELSE [raised |-> "", data |-> f.rows]

\* read_csv_data (src/main.py:54-70): the exception it raises ("" for none)
\* and the list it returns
read_csv_data(f) ==
  IF f.status = "missing" THEN [raised |-> "FileNotFoundError", data |-> <<>>]
  ELSE IF f.status = "empty" THEN [raised |-> "", data |-> <<>>]
  ELSE IF f.status = "unreadable" THEN [raised |-> "Exception", data |-> <<>>]
  ELSE [raised |-> "", data |-> f.rows]

(***************************************************************************)
(* The relational sink.  A stored row is the inserted values with the      *)
(* generated id; a table is a set of stored rows.                          *)
(***************************************************************************)
Stored(id, v) == [id |-> id, key |-> v.key, alt |-> v.alt, req |-> v.req, fk |-> v.fk]

\* first value of every id sequence (serial columns start at 1)
FirstId == 1

\* an employee stored before the run with an explicitly given id
OldEmployee == Stored(0, Row(Str(<<"a">>), Str(<<"p">>), Str(<<"x">>), None))

InitialSinks ==
  { [t \in Tables |-> {}],
    [t \in Tables |-> IF t = "Employee" THEN {OldEmployee} ELSE {}] }

\* The outcome of INSERT ... RETURNING id with values v on table t of sink
\* contents d: a text that is no integer for the integer column is a data
\* error; then NOT NULL (23502), UNIQUE (23505, NULLs never collide), then the
\* foreign key (23503).
SinkInsert(d, t, v) ==
  IF v.fk.tag = "str" /\ int_raises(v.fk.s) THEN "data"
  ELSE IF v.req = None \/ (fk_configs[t] # "" /\ v.fk = None) THEN "integrity"
  ELSE IF \E r \in d[t] : \/ (v.key # None /\ r.key = v.key)
                          \/ (v.alt # None /\ r.alt = v.alt) THEN "unique"
  ELSE IF fk_configs[t] # "" /\ ~(\E p \in d[fk_configs[t]] : p.id = v.fk.n) THEN "integrity"
  ELSE "ok"

\* SELECT id FROM t WHERE <natural key> = v.key (IS NULL for None): the ids of
\* the rows that match; fetchone() returns one of them
SinkSelect(d, t, v) == { r.id : r \in { x \in d[t] : x.key = v.key } }

(***************************************************************************)
(* Foreign-key resolution, main() step 2 (src/main.py:615-633).            *)
(***************************************************************************)
\* mutant of map_get: the placeholder's own number is taken for the identifier
map_get_literal(maps, parent, idx) == Int_(idx + 1)

\* csv_row_to_db_id_maps.get(parent_key, {}).get(parent_row_index)
map_get(maps, parent, idx) ==
  IF parent \in DOMAIN maps /\ idx \in DOMAIN maps[parent]
  THEN Int_(maps[parent][idx]) ELSE None

\* `if actual_db_id:` the looked-up id is used when it is truthy
id_found(actual_db_id) == truthy(actual_db_id)

\* mutant of resolve_row: the parent's map is taken with
\* csv_row_to_db_id_maps[parent_key], which raises when there is none
resolve_row_strict(maps, parent_key, raw_row) ==
  LET placeholder_val_str == raw_row.fk
      digits == truthy(placeholder_val_str) /\ isdigit(placeholder_val_str.s)
      actual_db_id == map_get(maps, parent_key, int(placeholder_val_str.s) - 1)
  IN  IF parent_key = "" \/ ~digits
      THEN [row |-> raw_row, warned |-> FALSE, raised |-> FALSE]
      ELSE IF int_raises(placeholder_val_str.s) \/ parent_key \notin DOMAIN maps
      THEN [row |-> raw_row, warned |-> FALSE, raised |-> TRUE]
      ELSE IF id_found(actual_db_id)
      THEN [row |-> [raw_row EXCEPT !.fk = actual_db_id], warned |-> FALSE, raised |-> FALSE]
      ELSE [row |-> [raw_row EXCEPT !.fk = None], warned |-> TRUE, raised |-> FALSE]

\* the processed row of one raw row of a table whose fk_configs name
\* parent_key ("" for a table without foreign key), whether the resolver
\* printed its warning, and whether int() raised ValueError
resolve_row(maps, parent_key, raw_row) ==
  LET placeholder_val_str == raw_row.fk
      digits == truthy(placeholder_val_str) /\ isdigit(placeholder_val_str.s)
      actual_db_id == map_get(maps, parent_key, int(placeholder_val_str.s) - 1)
  IN  IF parent_key = "" \/ ~digits
      THEN [row |-> raw_row, warned |-> FALSE, raised |-> FALSE]
      ELSE IF int_raises(placeholder_val_str.s)
      THEN [row |-> raw_row, warned |-> FALSE, raised |-> TRUE]
      ELSE IF id_found(actual_db_id)
      THEN [row |-> [raw_row EXCEPT !.fk = actual_db_id], warned |-> FALSE, raised |-> FALSE]
      ELSE [row |-> [raw_row EXCEPT !.fk = None], warned |-> TRUE, raised |-> FALSE]

(***************************************************************************)
(* insert_processed_data, one iteration of its row loop                    *)
(* (src/main.py:108-170).                                                  *)
(***************************************************************************)
\* `if value == '': value = None`
normalize(value) == IF value = Blank THEN None ELSE value

\* values_tuple of a row
values_tuple(row_dict) ==
  Row(normalize(row_dict.key), normalize(row_dict.alt),
      normalize(row_dict.req), normalize(row_dict.fk))

\* mutant of rollback_to_savepoint: no savepoint frames the row, the failed
\* statement leaves the transaction as it is
no_savepoint(tx) == tx

\* `ROLLBACK TO SAVEPOINT sp` in the handlers (src/main.py:129, 169), sent
\* when a statement after the row's SAVEPOINT has failed and left the
\* transaction in state tx: what the row did is undone and the transaction is
\* usable again
rollback_to_savepoint(tx) == "active"

\* mutant of insert_row: a uniqueness violation always skips the row, the
\* natural-key lookup is never made
insert_row_no_lookup(d, sq, tx, cn, t, row_dict, ids, fault, pick) ==
  LET v == values_tuple(row_dict)
      out == SinkInsert(d, t, v)
      used == [sq EXCEPT ![t] = @ + 1]
      same == [db |-> d, seq |-> sq, txn |-> tx, conn |-> cn, ids |-> ids,
               res |-> "skipped", id |-> 0, out |-> out]
  IN  IF cn = "lost" \/ fault = "lost"
      THEN [same EXCEPT !.conn = "lost", !.txn = "aborted", !.res = "escaped",
                        !.out = "none"]
      ELSE IF tx = "aborted"
      THEN [same EXCEPT !.res = "escaped", !.out = "none"]
      ELSE IF out = "ok"
      THEN [same EXCEPT !.db = [d EXCEPT ![t] = @ \cup {Stored(sq[t], v)}],
                        !.seq = used, !.ids = Append(ids, sq[t]),
                        !.res = "inserted", !.id = sq[t]]
      ELSE IF out \in {"unique", "integrity"}
      THEN [same EXCEPT !.seq = used, !.txn = rollback_to_savepoint("aborted")]
      ELSE [same EXCEPT !.txn = rollback_to_savepoint("aborted")]

\* The handling of one row: d, sq, tx, cn are the sink's contents, sequences,
\* transaction state and connection; fault is the sink fault that strikes this
\* row and pick the id fetchone() returns from a lookup.  res is "inserted",
\* "matched", "skipped", or "escaped" when an exception leaves the function.
insert_row(d, sq, tx, cn, t, row_dict, ids, fault, pick) ==
  LET v == values_tuple(row_dict)
      out == SinkInsert(d, t, v)
      used == [sq EXCEPT ![t] = @ + 1]
      same == [db |-> d, seq |-> sq, txn |-> tx, conn |-> cn, ids |-> ids,
               res |-> "skipped", id |-> 0, out |-> out]
  IN  IF cn = "lost" \/ fault = "lost"
      \* SAVEPOINT fails, and so does ROLLBACK TO SAVEPOINT in the handler
      THEN [same EXCEPT !.conn = "lost", !.txn = "aborted", !.res = "escaped",
                        !.out = "none"]
      ELSE IF tx = "aborted"
      \* SAVEPOINT is refused; the handler rolls back to a savepoint that was
      \* never set
      THEN [same EXCEPT !.res = "escaped", !.out = "none"]
      ELSE IF out = "ok"
      THEN [same EXCEPT !.db = [d EXCEPT ![t] = @ \cup {Stored(sq[t], v)}],
                        !.seq = used, !.ids = Append(ids, sq[t]),
                        !.res = "inserted", !.id = sq[t]]
      ELSE IF out = "unique"
      THEN LET undone == [same EXCEPT !.seq = used,
                                      !.txn = rollback_to_savepoint("aborted")]
           IN  IF ~natural_key_columns[t] THEN undone
               ELSE IF fault = "cancel"
               \* the lookup fails: the error is printed, nothing is rolled back
               THEN [undone EXCEPT !.txn = "aborted"]
               ELSE IF SinkSelect(d, t, v) # {}
               THEN [undone EXCEPT !.ids = Append(ids, pick),
                                   !.res = "matched", !.id = pick]
               ELSE undone
      \* any other IntegrityError (src/main.py:166-167)
      ELSE IF out = "integrity"
      THEN [same EXCEPT !.seq = used, !.txn = rollback_to_savepoint("aborted")]
      \* a data error, `except (psycopg2.Error, Exception)` (src/main.py:168-170)
      ELSE [same EXCEPT !.txn = rollback_to_savepoint("aborted")]

\* the faults that can strike the handling of a row, and the ids its lookup
\* may return
row_faults(d, t, row_dict) ==
  {"none", "lost"} \cup
  (IF SinkInsert(d, t, values_tuple(row_dict)) = "unique" /\ natural_key_columns[t]
   THEN {"cancel"} ELSE {})

row_picks(d, t, row_dict) ==
  IF SinkSelect(d, t, values_tuple(row_dict)) = {} THEN {0}
  ELSE SinkSelect(d, t, values_tuple(row_dict))

\* mutant of enumerate: the positions are counted from 1
enumerate_from_one(ids) == [k \in 1..Len(ids) |-> ids[k]]

\* {i: db_id for i, db_id in enumerate(inserted_ids)}
enumerate(ids) == [k \in 0..(Len(ids) - 1) |-> ids[k + 1]]

(***************************************************************************)
(* State of one load run, main() (src/main.py:173-673).                    *)
(***************************************************************************)
VARIABLES
  declared,                  \* csv_mappings as main() runs with it
  files,                     \* the CSV file of every table
  committed,                 \* the sink's durable contents
  db,                        \* the sink's contents as the transaction sees them
  seq,                       \* next value of every table's id sequence
  txn,                       \* "active", or "aborted" after a failed statement
  conn,                      \* "none", "open", "lost" or "closed"
  pc,                        \* position in main()
  tbl,                       \* index in csv_mappings of the table at hand
  raw_csv_data,
  processed_rows_to_insert,
  i,                         \* 0-based index of the next row to insert
  inserted_ids,
  csv_row_to_db_id_maps,
  \* history of the run, for the properties
  pre,                       \* the sink's durable contents when the run began
  outcome,                   \* per table, the outcome of every row handled
  loaded,                    \* the tables whose step 4 has been passed
  first,                     \* what an earlier run on the same files did
  warned,                    \* per table, the rows whose resolution warned
  faults,                    \* sink faults injected so far
  commits,                   \* conn.commit() calls that returned
  published,                 \* transactions the sink made durable
  rollbacks,                 \* conn.rollback() calls
  fatal,                     \* an exception reached main()'s outer handlers
  run,                       \* 1 for the first run, 2 for a second one
  \* state of the reconciler, main() of src/debug.py
  rpc,                       \* position in main(), "idle" when it is not run
  rtbl,                      \* index in PROCESSING_ORDER of the table at hand
  actual_id_cache,
  output,                    \* per table, the rows written to data_corrected/
  warnings,                  \* the warnings printed by pass 1 and by pass 2
  statements,                \* the statements sent to the sink
  \* the other programs of the repository, each "idle" when it is not run
  alter,                     \* state of a run of src/alter.py
  stmt,                      \* an insert statement being built (src/main.py:100-115)
  geo                        \* the geocoding cache of src/app.py and its use

sink == <<committed, db, seq, txn>>
locals == <<tbl, raw_csv_data, processed_rows_to_insert, i, inserted_ids>>
history == <<pre, outcome, loaded, first, warned, faults, commits, published,
             rollbacks, fatal, run>>
reconciler == <<rpc, rtbl, actual_id_cache, output, warnings, statements>>
others == <<alter, stmt, geo>>
vars == <<others, reconciler, declared, files, sink, conn, pc, locals, csv_row_to_db_id_maps, history>>

NoMaps == [t \in {} |-> <<>>]
NoHistory == [t \in Tables |-> <<>>]
NoFirst == [outcome |-> NoHistory, sink |-> [t \in Tables |-> {}], row |-> <<>>]
NoWarnings == [pass1 |-> [t \in Tables |-> {}], pass2 |-> NoHistory]

\* the reconciler before it is started
InitReconciler ==
  /\ rtbl = 1
  /\ actual_id_cache = <<>>
  /\ output = NoHistory
  /\ warnings = NoWarnings
  /\ statements = {}

\* alter.py and app.py are not run, no statement is being built apart from
\* those of the load
OthersIdle ==
  /\ alter = [pc |-> "idle"]
  /\ stmt = [pc |-> "idle"]
  /\ geo = [pc |-> "idle"]

\* every variable but the configuration, the files and the sink's rows
InitMain ==
  /\ db = committed
  /\ seq = [t \in Tables |-> FirstId]
  /\ txn = "active"
  /\ conn = "none"
  /\ pc = "connect"
  /\ tbl = 1
  /\ raw_csv_data = <<>>
  /\ processed_rows_to_insert = <<>>
  /\ i = 0
  /\ inserted_ids = <<>>
  /\ csv_row_to_db_id_maps = NoMaps
  /\ pre = committed
  /\ outcome = NoHistory
  /\ loaded = {}
  /\ first = NoFirst
  /\ warned = NoHistory
  /\ faults = 0
  /\ commits = 0
  /\ published = 0
  /\ rollbacks = 0
  /\ fatal = FALSE
  /\ run = 1

\* the files of the tables, employee.csv taken from E and salary.csv from S
Files(E, S) ==
  { [t \in Tables |-> IF t = "Employee" THEN e ELSE s] : e \in E, s \in S }

\* the loader at the entry of main(), the reconciler not run
InitRun ==
  /\ files \in Files(Datasets("Employee"), Datasets("Salary"))
  /\ committed \in InitialSinks
  /\ InitMain
  /\ rpc = "idle"
  /\ InitReconciler
  /\ OthersIdle

\* main() runs with csv_mappings as src/main.py declares it: the order of its
\* keys and the parent of every table's foreign key
Init ==
  /\ declared = [order |-> csv_mappings, fk |-> fk_configs]
  /\ InitRun

config_key == declared.order[tbl]

\* the loop `for config_key, config_values in csv_mappings.items()` moves on
next_table ==
  IF tbl < Len(declared.order)
  THEN /\ tbl' = tbl + 1
       /\ pc' = "read"
  ELSE /\ tbl' = tbl
       /\ pc' = "commit"

\* connect_to_db (src/main.py:43-52) and `if not conn: return`
Connect ==
  /\ pc = "connect"
  /\ \/ /\ conn' = "open"
        /\ pc' = "read"
     \/ /\ conn' = "none"
        /\ pc' = "done"
  /\ UNCHANGED <<others, reconciler, declared, files, sink, locals, csv_row_to_db_id_maps, history>>

\* main() step 1 (src/main.py:609-613) and the handlers of the table's try
\* (src/main.py:649-654): FileNotFoundError and an empty list go on to the
\* next table, any other exception is re-raised
ReadTable ==
  /\ pc = "read"
  /\ LET r == read_csv_data(files[config_key]) IN
       \/ /\ r.raised = "FileNotFoundError"
          /\ next_table
          /\ UNCHANGED <<raw_csv_data, fatal>>
       \/ /\ r.raised = "" /\ r.data = <<>>
          /\ next_table
          /\ UNCHANGED <<raw_csv_data, fatal>>
       \/ /\ r.raised \notin {"", "FileNotFoundError"}
          /\ pc' = "except"
          /\ fatal' = TRUE
          /\ UNCHANGED <<tbl, raw_csv_data>>
       \/ /\ r.raised = "" /\ r.data # <<>>
          /\ raw_csv_data' = r.data
          /\ pc' = "resolve"
          /\ UNCHANGED <<tbl, fatal>>
  /\ UNCHANGED <<others, reconciler, declared, files, sink, conn, processed_rows_to_insert, i, inserted_ids,
                 csv_row_to_db_id_maps, pre, outcome, loaded, first, warned,
                 faults, commits, published, rollbacks, run>>

\* main() step 2: every raw row is resolved before the first insert
ResolveTable ==
  /\ pc = "resolve"
  /\ LET res == [k \in 1..Len(raw_csv_data) |->
                   resolve_row(csv_row_to_db_id_maps, declared.fk[config_key],
                               raw_csv_data[k])]
     IN \/ /\ \E k \in 1..Len(res) : res[k].raised
           /\ pc' = "except"
           /\ fatal' = TRUE
           /\ UNCHANGED <<processed_rows_to_insert, i, inserted_ids, warned>>
        \/ /\ \A k \in 1..Len(res) : ~res[k].raised
           /\ processed_rows_to_insert' = [k \in 1..Len(res) |-> res[k].row]
           /\ warned' = [warned EXCEPT ![config_key] = [k \in 1..Len(res) |-> res[k].warned]]
           /\ i' = 0
           /\ inserted_ids' = <<>>
           /\ pc' = "insert"
           /\ UNCHANGED fatal
  /\ UNCHANGED <<others, reconciler, declared, files, sink, conn, tbl, raw_csv_data, csv_row_to_db_id_maps,
                 pre, outcome, loaded, first, faults, commits, published, rollbacks, run>>

\* one iteration of insert_processed_data's loop; the function returns after
\* the last row
InsertRow ==
  /\ pc = "insert"
  /\ i < Len(processed_rows_to_insert)
  /\ LET row_dict == processed_rows_to_insert[i + 1] IN
     \E fault \in row_faults(db, config_key, row_dict),
        pick \in row_picks(db, config_key, row_dict) :
       /\ fault # "none" => faults < MaxFaults
       /\ LET r == insert_row(db, seq, txn, conn, config_key, row_dict,
                              inserted_ids, fault, pick)
          IN /\ db' = r.db
             /\ seq' = r.seq
             /\ txn' = r.txn
             /\ conn' = r.conn
             /\ inserted_ids' = r.ids
             /\ outcome' = [outcome EXCEPT ![config_key] =
                              Append(@, [res |-> r.res, id |-> r.id, out |-> r.out])]
             /\ faults' = IF fault = "none" THEN faults ELSE faults + 1
             /\ IF r.res = "escaped"
                THEN /\ pc' = "except"
                     /\ fatal' = TRUE
                     /\ i' = i
                ELSE /\ pc' = IF i + 1 = Len(processed_rows_to_insert)
                              THEN "store" ELSE "insert"
                     /\ fatal' = fatal
                     /\ i' = i + 1
  /\ UNCHANGED <<others, reconciler, declared, files, committed, tbl, raw_csv_data, processed_rows_to_insert,
                 csv_row_to_db_id_maps, pre, loaded, first, warned, commits, published,
                 rollbacks, run>>

\* mutant of StoreMap: the dict is rebuilt with the map of the table alone
StoreMapAlone ==
  /\ pc = "store"
  /\ csv_row_to_db_id_maps' =
       IF inserted_ids # <<>>
       THEN [t \in {config_key} |-> enumerate(inserted_ids)]
       ELSE csv_row_to_db_id_maps
  /\ loaded' = loaded \cup {config_key}
  /\ next_table
  /\ UNCHANGED <<others, reconciler, declared, files, sink, conn, raw_csv_data, processed_rows_to_insert, i,
                 inserted_ids, pre, outcome, first, warned, faults, commits, published,
                 rollbacks, fatal, run>>

\* main() step 4: `if inserted_ids:` the map of the table is stored
StoreMap ==
  /\ pc = "store"
  /\ csv_row_to_db_id_maps' =
       IF inserted_ids # <<>>
       THEN [t \in DOMAIN csv_row_to_db_id_maps \cup {config_key} |->
               IF t = config_key THEN enumerate(inserted_ids)
               ELSE csv_row_to_db_id_maps[t]]
       ELSE csv_row_to_db_id_maps
  /\ loaded' = loaded \cup {config_key}
  /\ next_table
  /\ UNCHANGED <<others, reconciler, declared, files, sink, conn, raw_csv_data, processed_rows_to_insert, i,
                 inserted_ids, pre, outcome, first, warned, faults, commits, published,
                 rollbacks, fatal, run>>

\* conn.commit() after the loop: it raises on a lost connection; on an aborted
\* transaction the sink answers COMMIT with a rollback and no error
Commit ==
  /\ pc = "commit"
  /\ \/ /\ conn = "open"
        /\ \/ /\ txn = "active"
              /\ committed' = db
              /\ db' = db
              /\ txn' = txn
              /\ published' = published + 1
           \/ /\ txn = "aborted"
              /\ committed' = committed
              /\ db' = committed
              /\ txn' = "active"
              /\ published' = published
        /\ commits' = commits + 1
        /\ pc' = "finally"
        /\ UNCHANGED <<conn, faults, fatal>>
     \/ /\ conn = "open" /\ faults < MaxFaults
        /\ conn' = "lost"
        /\ faults' = faults + 1
        /\ fatal' = TRUE
        /\ pc' = "except"
        /\ UNCHANGED <<committed, db, txn, commits, published>>
     \/ /\ conn = "lost"
        /\ fatal' = TRUE
        /\ pc' = "except"
        /\ UNCHANGED <<committed, db, txn, conn, commits, published, faults>>
  /\ UNCHANGED <<others, reconciler, declared, files, seq, locals, csv_row_to_db_id_maps, pre, outcome, loaded,
                 first, warned, rollbacks, run>>

\* mutant of Rollback: the handler commits what the run had inserted
RollbackCommits ==
  /\ pc = "except"
  /\ committed' = db
  /\ txn' = "active"
  /\ rollbacks' = rollbacks + 1
  /\ pc' = IF conn = "lost" THEN "finally_raise" ELSE "finally"
  /\ UNCHANGED <<others, reconciler, declared, files, db, seq, conn, locals, csv_row_to_db_id_maps,
                 pre, outcome, loaded, first, warned, faults, commits, published, fatal, run>>

\* the outer handlers `except psycopg2.Error` and `except Exception`
\* (src/main.py:660-668): the error is printed and conn.rollback() discards
\* the transaction.  On a connection that was lost the sink has discarded it
\* already and conn.rollback() raises in its turn; that exception leaves the
\* handler and, after the finally clause, main().
Rollback ==
  /\ pc = "except"
  /\ db' = committed
  /\ txn' = "active"
  /\ rollbacks' = rollbacks + 1
  /\ pc' = IF conn = "lost" THEN "finally_raise" ELSE "finally"
  /\ UNCHANGED <<others, reconciler, declared, files, committed, seq, conn, locals, csv_row_to_db_id_maps,
                 pre, outcome, loaded, first, warned, faults, commits, published, fatal, run>>

\* mutant of Close: the connection is closed at the end of the handlers, not
\* in a finally clause, and an exception raised in a handler skips it
CloseAfterHandlers ==
  /\ pc \in {"finally", "finally_raise"}
  /\ conn' = IF pc = "finally" THEN "closed" ELSE conn
  /\ db' = committed
  /\ pc' = IF pc = "finally" THEN "done" ELSE "raised"
  /\ UNCHANGED <<others, reconciler, declared, files, committed, seq, txn, locals, csv_row_to_db_id_maps, history>>

\* `finally: conn.close()`; main() then returns, or the exception raised in
\* the handler goes on to the top level
Close ==
  /\ pc \in {"finally", "finally_raise"}
  /\ conn' = "closed"
  /\ db' = committed
  /\ pc' = IF pc = "finally" THEN "done" ELSE "raised"
  /\ UNCHANGED <<others, reconciler, declared, files, committed, seq, txn, locals, csv_row_to_db_id_maps, history>>

Next ==
  \/ Connect
  \/ ReadTable
  \/ ResolveTable
  \/ InsertRow
  \/ StoreMap
  \/ Commit
  \/ Rollback
  \/ Close

Spec == Init /\ [][Next]_vars

(***************************************************************************)
(* Properties of one load run.                                             *)
(***************************************************************************)
\* main() has ended: it returned, or an exception left it
ended == pc \in {"done", "raised"}

\* the exit status of the process (src/main.py:675-676): 0 when main()
\* returned, 1 when an exception left it
exit_status == IF pc = "raised" THEN 1 ELSE 0

\* the row was inserted or matched an existing row
Success(o) == o.res \in {"inserted", "matched"}

\* the map main() holds for table t ({} when it stored none)
map_of(t) == IF t \in DOMAIN csv_row_to_db_id_maps THEN csv_row_to_db_id_maps[t] ELSE <<>>

\* the placeholder is a decimal string
decimal(s) == ~int_raises(s)

\* C1: once a fatal error has occurred in a run, nothing of the run is ever
\* committed: the sink's durable contents stay what they were when the run
\* began, no commit is issued, and when the handlers have run the transaction
\* has been rolled back exactly once and the sink shows the pre-run rows.
C1_Atomicity ==
  fatal => /\ committed = pre
           /\ commits = 0
           /\ published = 0
           /\ (pc \in {"finally", "finally_raise"} \/ ended) => (rollbacks = 1 /\ db = pre)

\* a run ended by a fatal error in the second table, after rows of both tables
\* had been inserted
C1_Witness ==
  /\ ended /\ fatal /\ "Employee" \in loaded
  /\ \E k \in 1..Len(outcome["Employee"]) : outcome["Employee"][k].res = "inserted"
  /\ \E k \in 1..Len(outcome["Salary"]) : outcome["Salary"][k].res = "inserted"

\* C2: a run in which every table completed its pass without a fatal error
\* has committed the outer transaction exactly once and has never rolled it
\* back.
C2_CommitsOnce ==
  (pc = "done" /\ conn = "closed" /\ ~fatal) => (published = 1 /\ rollbacks = 0)

\* C4: after a table has been loaded, its map has an entry at 0-based position
\* k exactly for the source rows k that were inserted or matched, and the
\* entry is that row's identifier.
C4_OrdinalStability ==
  \A t \in loaded : \A k \in 1..Len(outcome[t]) :
    /\ (k - 1) \in DOMAIN map_of(t) <=> Success(outcome[t][k])
    /\ Success(outcome[t][k]) => map_of(t)[k - 1] = outcome[t][k].id

\* C5: a child row whose placeholder is the decimal string k >= 1 gets, when
\* the parent's k-th source row was inserted or matched, the identifier of
\* that row as its foreign key (stated for the identifiers other than 0; C9
\* is about the identifier 0).
C5_OrdinalResolution ==
  (pc = "insert" /\ fk_configs[config_key] # "") =>
    \A j \in 1..Len(raw_csv_data) :
      LET p == raw_csv_data[j].fk.s
          parent == outcome[fk_configs[config_key]]
      IN  (decimal(p) /\ int(p) >= 1 /\ int(p) <= Len(parent) /\ Success(parent[int(p)])
           /\ parent[int(p)].id # 0)
          => processed_rows_to_insert[j].fk = Int_(parent[int(p)].id)

\* C7: every row about to be inserted whose foreign key was resolved to an
\* identifier references a row that exists in the parent table within the
\* transaction, and so does every child row the transaction holds.
C7_FkIntegrity ==
  /\ pc = "insert" =>
       \A j \in (i + 1)..Len(processed_rows_to_insert) :
         LET v == processed_rows_to_insert[j].fk IN
           (fk_configs[config_key] # "" /\ v.tag = "int")
             => \E p \in db[fk_configs[config_key]] : p.id = v.n
  /\ \A t \in Tables : \A r \in db[t] :
       (fk_configs[t] # "" /\ r.fk.tag = "int") => \E p \in db[fk_configs[t]] : p.id = r.fk.n

\* a child row was inserted with a resolved foreign key
C7_Witness ==
  \E k \in 1..Len(outcome["Salary"]) :
    /\ outcome["Salary"][k].res = "inserted"
    /\ \E r \in db["Salary"] : r.id = outcome["Salary"][k].id /\ r.fk.tag = "int"

\* C8: a blank placeholder reaches the insert as NULL and raises no warning; a
\* non-blank placeholder that is no integer reaches the insert as NULL and
\* raises a warning.
C8_UnparsablePlaceholder ==
  (pc = "insert" /\ fk_configs[config_key] # "") =>
    \A j \in 1..Len(raw_csv_data) :
      LET p == raw_csv_data[j].fk
          sent == values_tuple(processed_rows_to_insert[j]).fk
      IN  /\ p = Blank => (sent = None /\ ~warned[config_key][j])
          /\ (p # Blank /\ int_raises(p.s)) => (sent = None /\ warned[config_key][j])

\* C9: a decimal placeholder whose ordinal has no entry in the parent's map is
\* resolved to None with a warning and the row is kept for the insert; one
\* whose ordinal has an entry is replaced by that entry.
C9_MapLookup ==
  (pc = "insert" /\ fk_configs[config_key] # "") =>
    /\ Len(processed_rows_to_insert) = Len(raw_csv_data)
    /\ \A j \in 1..Len(raw_csv_data) :
         LET p == raw_csv_data[j].fk.s
             entry == map_get(csv_row_to_db_id_maps, fk_configs[config_key], int(p) - 1)
         IN  decimal(p) =>
               /\ entry = None => (processed_rows_to_insert[j].fk = None /\ warned[config_key][j])
               /\ entry # None => processed_rows_to_insert[j].fk = entry

\* C10: when a row's insert violates a uniqueness constraint the sink is left
\* as it was before the row; if the table declares natural key columns and
\* the lookup by them finds rows, the identifier of a found row is appended to
\* inserted_ids; otherwise the row is skipped and inserted_ids is unchanged.
C10_UniqueViolation ==
  [][ (/\ pc = "insert" /\ pc' \in {"insert", "store"}
       /\ i' = i + 1
       /\ SinkInsert(db, config_key, values_tuple(processed_rows_to_insert[i + 1])) = "unique")
      => LET found == SinkSelect(db, config_key, values_tuple(processed_rows_to_insert[i + 1]))
             o == outcome'[config_key][i + 1]
         IN  /\ db' = db
             /\ IF natural_key_columns[config_key] /\ found # {} /\ txn' = "active"
                THEN /\ o.res = "matched" /\ o.id \in found
                     /\ inserted_ids' = Append(inserted_ids, o.id)
                ELSE /\ o.res = "skipped"
                     /\ inserted_ids' = inserted_ids ]_vars

\* a row of the table with a natural key matched an existing row, and a row of
\* the table without one was skipped on a uniqueness violation
C10_Witness ==
  /\ \E k \in 1..Len(outcome["Employee"]) :
       outcome["Employee"][k].res = "matched" /\ outcome["Employee"][k].out = "unique"
  /\ \E k \in 1..Len(outcome["Salary"]) :
       outcome["Salary"][k].res = "skipped" /\ outcome["Salary"][k].out = "unique"

\* C11: when a row's insert fails with a constraint or data error other than
\* a uniqueness violation, the handling of the row leaves the sink as it was at
\* the row's savepoint: the rows the transaction holds, those inserted earlier
\* included, and the durable rows are unchanged, the transaction is usable, no
\* identifier is recorded and the row counts as skipped.
C11_SavepointFrame ==
  [][ (/\ pc = "insert" /\ pc' \in {"insert", "store"}
       /\ i' = i + 1
       /\ SinkInsert(db, config_key, values_tuple(processed_rows_to_insert[i + 1]))
             \in {"integrity", "data"})
      => /\ db' = db
         /\ committed' = committed
         /\ txn' = "active"
         /\ inserted_ids' = inserted_ids
         /\ outcome'[config_key][i + 1].res = "skipped" ]_vars

\* a row was skipped on a NOT NULL or foreign-key violation and another on a
\* data error, each after a row of the same table had been inserted, and the
\* inserted rows are still in the transaction
C11_Witness ==
  /\ pc \in {"insert", "store"} /\ txn = "active"
  /\ \E t \in Tables : \E k \in 2..Len(outcome[t]) :
       /\ outcome[t][k].res = "skipped" /\ outcome[t][k].out = "integrity"
       /\ outcome[t][k - 1].res = "inserted"
       /\ \E r \in db[t] : r.id = outcome[t][k - 1].id
  /\ \E k \in 2..Len(outcome["Salary"]) :
       /\ outcome["Salary"][k].res = "skipped" /\ outcome["Salary"][k].out = "data"
       /\ outcome["Salary"][k - 1].res = "inserted"
       /\ \E r \in db["Salary"] : r.id = outcome["Salary"][k - 1].id

\* the dataset is absent, zero bytes long or holds no data row
NoData(f) == f.status \in {"missing", "empty"} \/ (f.status = "ok" /\ f.rows = <<>>)

\* C13: a table whose dataset is absent, zero bytes long or without data rows
\* has no row attempted; reading it is no error, changes nothing in the sink
\* and moves the run on to the next table, or to the commit after the last.
C13_NoDataSkipsTable ==
  /\ [](\A t \in Tables : NoData(files[t]) => outcome[t] = <<>>)
  /\ [][ (pc = "read" /\ NoData(files[config_key]))
         => /\ <<committed, db, seq, txn, conn>>' = <<committed, db, seq, txn, conn>>
            /\ outcome' = outcome
            /\ ~fatal'
            /\ IF tbl < Len(csv_mappings)
               THEN tbl' = tbl + 1 /\ pc' = "read"
               ELSE pc' = "commit" ]_vars

\* a run whose first dataset is zero bytes long went on to attempt the rows of
\* the second table and ended with a commit
C13_Witness ==
  /\ pc = "done" /\ published = 1 /\ ~fatal
  /\ files["Employee"].status = "empty"
  /\ outcome["Employee"] = <<>>
  /\ outcome["Salary"] # <<>>

\* C14: a table whose dataset exists but cannot be read is skipped: reading it
\* raises no fatal error and the run moves on to the next table, or to the
\* commit after the last.
C14_UnreadableSkipsTable ==
  [][ (pc = "read" /\ files[config_key].status = "unreadable")
      => /\ ~fatal'
         /\ IF tbl < Len(csv_mappings)
            THEN tbl' = tbl + 1 /\ pc' = "read"
            ELSE pc' = "commit" ]_vars

\* C15: a run that ended in a fatal error has let the error leave main() and
\* ended with an exit status other than 0, the exit status of a run that
\* completed and committed.
C15_ExitStatus ==
  (ended /\ fatal) => (pc = "raised" /\ exit_status # 0)

\* every parent of every table stands before the table in the order, and no
\* table stands in it twice
Topological(order, parents) ==
  /\ \A j, k \in 1..Len(order) : order[j] = order[k] => j = k
  /\ \A k \in 1..Len(order) : \A p \in parents[order[k]] :
       \E j \in 1..(k - 1) : order[j] = p

\* the order of csv_mappings is topological for its fk_configs
csv_mappings_topological == Topological(csv_mappings_keys, parent_config_keys)

\* PROCESSING_ORDER is topological for the fk_configs of TABLE_CONFIGS
PROCESSING_ORDER_topological ==
  Topological(PROCESSING_ORDER,
              [t \in Range(PROCESSING_ORDER) |-> TABLE_CONFIGS[t].fk_configs])

\* C16: the declared orders of main.py and debug.py are topological, the run
\* takes the tables one after the other in the declared order and the rows of
\* a table in source order, and when the rows of a table with a foreign key
\* are resolved or inserted the parent table has been processed to completion:
\* it stands earlier in the order and its map has been stored or its dataset
\* held no row.
C16_TopologicalOrder ==
  /\ [](/\ csv_mappings_topological
        /\ PROCESSING_ORDER_topological
        /\ \A k \in 1..Len(csv_mappings) :
             /\ k > tbl => (outcome[csv_mappings[k]] = <<>> /\ csv_mappings[k] \notin loaded)
             /\ (k < tbl /\ pc \in {"read", "resolve", "insert", "store"})
                  => (csv_mappings[k] \in loaded \/ NoData(files[csv_mappings[k]]))
        /\ pc \in {"resolve", "insert", "store"} =>
             /\ raw_csv_data = files[config_key].rows
             /\ fk_configs[config_key] # "" =>
                  \E j \in 1..(tbl - 1) : csv_mappings[j] = fk_configs[config_key]
        /\ pc \in {"insert", "store"} =>
             /\ Len(outcome[config_key]) = i
             /\ Len(processed_rows_to_insert) = Len(raw_csv_data)
             /\ \A k \in 1..Len(raw_csv_data) :
                  [processed_rows_to_insert[k] EXCEPT !.fk = Blank]
                    = [raw_csv_data[k] EXCEPT !.fk = Blank])
  /\ [][ /\ tbl' \in {tbl, tbl + 1}
         /\ outcome' # outcome =>
              /\ i' \in {i, i + 1}
              /\ outcome' = [outcome EXCEPT ![config_key] =
                               Append(@, outcome'[config_key][i + 1])] ]_vars

\* the rows of the child table are being resolved after both rows of the
\* parent table were handled and its map was stored
C16_Witness ==
  /\ pc = "resolve" /\ config_key = "Salary"
  /\ "Employee" \in loaded
  /\ Len(outcome["Employee"]) = MaxRows
  /\ Len(raw_csv_data) = MaxRows

\* C22: the map of a table whose load has finished is never changed: no
\* later step adds, removes or changes an entry of it.  The resolution of a
\* table's rows reads the map of a parent declared earlier, leaves every map,
\* the raw rows and the sink as they are, and sends nothing over the
\* connection.
C22_MapsReadOnly ==
  [][ /\ \A t \in loaded :
           /\ t \in DOMAIN csv_row_to_db_id_maps <=> t \in DOMAIN csv_row_to_db_id_maps'
           /\ t \in DOMAIN csv_row_to_db_id_maps
                => csv_row_to_db_id_maps'[t] = csv_row_to_db_id_maps[t]
      /\ pc = "resolve" =>
           /\ csv_row_to_db_id_maps' = csv_row_to_db_id_maps
           /\ raw_csv_data' = raw_csv_data
           /\ <<committed, db, seq, txn, conn>>' = <<committed, db, seq, txn, conn>>
           /\ fk_configs[config_key] # "" =>
                \E j \in 1..(tbl - 1) : csv_mappings[j] = fk_configs[config_key] ]_vars

\* both tables have stored a map, and the resolution of the second table's
\* rows replaced a placeholder by an identifier of the first table's map in
\* the processed row, not in the raw row
C22_Witness ==
  /\ pc = "commit"
  /\ DOMAIN csv_row_to_db_id_maps = {"Employee", "Salary"}
  /\ \E j \in 1..Len(raw_csv_data) :
       /\ raw_csv_data[j].fk.tag = "str"
       /\ processed_rows_to_insert[j].fk.tag = "int"
       /\ \E k \in DOMAIN csv_row_to_db_id_maps["Employee"] :
            processed_rows_to_insert[j].fk = Int_(csv_row_to_db_id_maps["Employee"][k])

C27_UsableBetweenRows ==
  pc \in {"insert", "store"} => txn = "active"

\* C28: a run that obtained a connection has closed it when main() ends,
\* however it ends; the connection is closed by one step only, taken from the
\* finally clause on a connection that is not closed yet and ending main(), so
\* that it is closed once and no commit, rollback or other step follows it.
C28_ClosedOnce ==
  /\ []((ended /\ conn # "none") => conn = "closed")
  /\ []((ended /\ conn = "none") => (outcome = NoHistory /\ commits = 0 /\ rollbacks = 0))
  /\ [][ conn' = "closed"
           => /\ conn \in {"open", "lost"}
              /\ pc \in {"finally", "finally_raise"}
              /\ ended'
              /\ <<commits, published, rollbacks>>' = <<commits, published, rollbacks>> ]_vars

\* a run that was rolled back after an error that is no database error (a
\* placeholder int() rejects) has ended with its connection closed
C28_Witness ==
  /\ ended /\ conn = "closed"
  /\ fatal /\ rollbacks = 1 /\ faults = 0
  /\ outcome["Employee"] # <<>>

\* the outcomes of the rows that were inserted or matched, in source order
Successes(t) == SelectSeq(outcome[t], Success)

new_run ==
  /\ run' = 2
  /\ conn' = "none"
  /\ pc' = "connect"
  /\ txn' = "active"
  /\ tbl' = 1
  /\ raw_csv_data' = <<>>
  /\ processed_rows_to_insert' = <<>>
  /\ i' = 0
  /\ inserted_ids' = <<>>
  /\ csv_row_to_db_id_maps' = NoMaps
  /\ outcome' = NoHistory
  /\ loaded' = {}
  /\ warned' = NoHistory
  /\ commits' = 0
  /\ published' = 0
  /\ rollbacks' = 0
  /\ fatal' = FALSE
  /\ UNCHANGED faults

\* the loader is run a second time on the sink the first run committed to
Rerun ==
  /\ pc = "done" /\ run = 1 /\ conn = "closed" /\ published = 1
  /\ first' = [outcome |-> outcome, sink |-> committed, row |-> <<>>]
  /\ pre' = committed
  /\ new_run
  /\ UNCHANGED <<others, reconciler, declared, files, committed, db, seq>>

NextRerun == Next \/ Rerun

SpecRerun == Init /\ [][NextRerun]_vars

\* the same load is run from the same sink contents with one source row, that
\* had loaded, made faulty: its NOT NULL column is blanked
CorruptRerun ==
  /\ pc = "done" /\ run = 1 /\ conn = "closed" /\ published = 1
  /\ \E t \in Tables : \E k \in 1..Len(outcome[t]) :
       /\ Success(outcome[t][k])
       /\ files' = [files EXCEPT ![t].rows[k].req = Blank]
       /\ first' = [outcome |-> outcome, sink |-> committed, row |-> <<t, k>>]
  /\ committed' = pre
  /\ db' = pre
  /\ seq' = [t \in Tables |-> FirstId]
  /\ pre' = pre
  /\ new_run
  /\ UNCHANGED <<others, reconciler, declared>>

NextIso == Next \/ CorruptRerun

SpecIso == Init /\ [][NextIso]_vars

\* the child row k of table t references the source row <<pt, pk>>
References(t, k, ref) ==
  /\ fk_configs[t] = ref[1]
  /\ decimal(files[t].rows[k].fk.s)
  /\ int(files[t].rows[k].fk.s) = ref[2]

\* C3: when one source row is made faulty and fails with a constraint error,
\* every other row that loaded in the run without the fault loads in the run
\* with it (stated for the rows the run without the fault inserted and that do
\* not reference the faulty row, in runs without sink faults).
C3_FaultIsolation ==
  (/\ run = 2 /\ pc = "done" /\ faults = 0 /\ first.row # <<>>
   /\ Len(outcome[first.row[1]]) >= first.row[2]
   /\ outcome[first.row[1]][first.row[2]].out = "integrity")
  => \A t \in Tables : \A k \in 1..Len(first.outcome[t]) :
       (/\ <<t, k>> # first.row /\ ~References(t, k, first.row)
        /\ first.outcome[t][k].res = "inserted")
         => (k <= Len(outcome[t]) /\ Success(outcome[t][k]))

\* C6: in the second of two committed runs on the same files, no table with
\* natural key columns gains a row, and every source row of such a table that
\* the first run gave an identifier is given the same identifier (runs without
\* sink faults).
C6_IdempotentRerun ==
  (run = 2 /\ pc = "done" /\ published = 1 /\ faults = 0 /\ first.row = <<>>)
  => \A t \in Tables : natural_key_columns[t] =>
       /\ committed[t] = pre[t]
       /\ \A k \in 1..Len(first.outcome[t]) :
            Success(first.outcome[t][k])
              => /\ k <= Len(outcome[t])
                 /\ Success(outcome[t][k])
                 /\ outcome[t][k].id = first.outcome[t][k].id

\* C12: insert_processed_data never raises: the handling of every row ends
\* with the row inserted, matched or skipped, whatever statement of it failed
\* in the sink (stated for the runs in which the connection to the sink is
\* kept).
C12_NeverRaises ==
  conn # "lost" =>
    \A t \in Tables : \A k \in 1..Len(outcome[t]) : outcome[t][k].res # "escaped"

(***************************************************************************)
(* The loader run with a csv_mappings other than the declared one: main()  *)
(* takes the dict as it is written (src/main.py:605-633).                  *)
(***************************************************************************)
\* the declared configuration and three variants of it: the child declared
\* before its parent, a foreign key whose parent_config_key is no key of
\* csv_mappings, and two tables that reference each other
Configs ==
  { [order |-> csv_mappings, fk |-> fk_configs],
    [order |-> <<"Salary", "Employee">>, fk |-> fk_configs],
    [order |-> csv_mappings, fk |-> [t \in Tables |-> IF t = "Salary" THEN "Ghost" ELSE ""]],
    [order |-> csv_mappings,
     fk |-> [t \in Tables |-> IF t = "Salary" THEN "Employee" ELSE "Salary"]] }

InitConfig ==
  /\ declared \in Configs
  /\ InitRun

SpecConfig == InitConfig /\ [][Next]_vars

\* every foreign key of the configuration references a table declared earlier
ValidConfig(c) ==
  Topological(c.order, [t \in Tables |-> IF c.fk[t] = "" THEN {} ELSE {c.fk[t]}])

\* C17: under a configuration in which a foreign key references a parent that
\* is not declared, is declared later or lies on a cycle, no dataset is read,
\* no row is attempted, nothing is committed, and a run that had obtained its
\* connection ends in a fatal error.
C17_ConfigRejected ==
  ~ValidConfig(declared) =>
    /\ raw_csv_data = <<>>
    /\ \A t \in Tables : outcome[t] = <<>>
    /\ published = 0
    /\ (ended /\ conn = "closed") => fatal

(***************************************************************************)
(* The reconciler, main() of src/debug.py: pass 1 looks the rows of every  *)
(* dataset up in the sink by natural key and fills actual_id_cache, pass 2 *)
(* rewrites the datasets into data_corrected/ with the foreign keys taken  *)
(* from the cache.                                                         *)
(***************************************************************************)
\* PROCESSING_ORDER restricted to the modelled tables
processing_order == SelectSeq(PROCESSING_ORDER, Modelled)

\* "parent_config_key" of the table's foreign key ("" for none)
parent_config_key(t) ==
  IF TABLE_CONFIGS[t].fk_configs = {} THEN ""
  ELSE CHOOSE p \in TABLE_CONFIGS[t].fk_configs : TRUE

\* d[k] = v on a dict
Put(d, k, v) == [x \in DOMAIN d \cup {k} |-> IF x = k THEN v ELSE d[x]]

\* d.get(k)
Get(d, k) == IF k \in DOMAIN d THEN Int_(d[k]) ELSE None

DigitChar(n) ==
  CASE n = 0 -> "0" [] n = 1 -> "1" [] n = 2 -> "2" [] n = 3 -> "3" [] n = 4 -> "4"
    [] n = 5 -> "5" [] n = 6 -> "6" [] n = 7 -> "7" [] n = 8 -> "8" [] n = 9 -> "9"

RECURSIVE str(_)
\* str(n) of an int n >= 0, as csv.DictWriter writes it
str(n) == IF n < 10 THEN <<DigitChar(n)>>
          ELSE Append(str(n \div 10), DigitChar(n % 10))

\* the field csv.DictWriter writes for a value
written(v) ==
  CASE v.tag = "str" -> v
    [] v.tag = "int" -> Str(str(v.n))
    [] v.tag = "none" -> Blank

\* write_dicts_to_csv (src/debug.py:240-245): the rows of the file written
write_dicts_to_csv(data) ==
  [k \in 1..Len(data) |->
     Row(written(data[k].key), written(data[k].alt), written(data[k].req),
         written(data[k].fk))]

\* read_csv_to_dicts (src/debug.py:233-238): an absent file gives [], a file
\* that cannot be opened or decoded raises
read_csv_to_dicts(f) ==
  IF f.status = "missing" THEN [raised |-> FALSE, data |-> <<>>]
  ELSE IF f.status = "unreadable" THEN [raised |-> TRUE, data |-> <<>>]
  ELSE [raised |-> FALSE, data |-> f.rows]

\* mutant of pass1_sql: the lookup deletes the rows it finds
pass1_sql_delete(t, natural_key_val) ==
  [kind |-> "delete", table |-> t, key |-> natural_key_val]

\* the statement of pass 1 (src/debug.py:270)
pass1_sql(t, natural_key_val) ==
  [kind |-> "select", table |-> t, key |-> natural_key_val]

\* cursor.execute(sql, ...) on sink contents d: the rows the statement leaves
\* in the table and the ids it returns
SinkExecute(d, sql) ==
  LET hit == {x \in d[sql.table] : x.key = sql.key}
  IN  IF sql.kind = "select"
      THEN [db |-> d, ids |-> {x.id : x \in hit}]
      ELSE [db |-> [d EXCEPT ![sql.table] = @ \ hit], ids |-> {}]

\* the row of pass 1 sends its lookup
queried(t, csv_row) == TABLE_CONFIGS[t].natural_key_in_csv /\ csv_row.key # Blank

\* mutant of pass1_row: the id is cached under the natural key only
pass1_row_by_key_only(acc, t, idx, csv_row) ==
  LET sql == pass1_sql(t, csv_row.key)
      res == SinkExecute(acc.db, sql)
  IN  IF queried(t, csv_row) /\ res.ids # {}
      THEN [acc EXCEPT !.db = res.db, !.statements = @ \cup {sql},
                       !.cache = Put(@, csv_row.key, CHOOSE x \in res.ids : TRUE)]
      ELSE IF queried(t, csv_row)
      THEN [acc EXCEPT !.db = res.db, !.statements = @ \cup {sql}]
      ELSE acc

\* One iteration of the row loop of pass 1 (src/debug.py:265-282) on acc, the
\* sink's rows, the table's cache, the rows warned about and the statements
\* sent so far.  The natural key column is UNIQUE in the sink, fetchone()
\* returns the one row that matches.
pass1_row(acc, t, idx, csv_row) ==
  LET sql == pass1_sql(t, csv_row.key)
      res == SinkExecute(acc.db, sql)
      sent == [acc EXCEPT !.db = res.db, !.statements = @ \cup {sql}]
      actual_db_id == CHOOSE x \in res.ids : TRUE
  IN  IF queried(t, csv_row) /\ res.ids # {}
      THEN [sent EXCEPT !.cache = Put(Put(@, csv_row.key, actual_db_id),
                                      Int_(idx), actual_db_id)]
      ELSE IF queried(t, csv_row) THEN sent
      ELSE IF ~TABLE_CONFIGS[t].natural_key_in_csv
      THEN [acc EXCEPT !.warned = @ \cup {idx}]
      ELSE acc

RECURSIVE pass1_rows(_, _, _, _)
\* the first n iterations of the row loop of pass 1
pass1_rows(d, t, original_csv_data, n) ==
  IF n = 0 THEN [db |-> d, cache |-> <<>>, warned |-> {}, statements |-> {}]
  ELSE pass1_row(pass1_rows(d, t, original_csv_data, n - 1), t, n - 1,
                 original_csv_data[n])

\* mutant of pass2_row: a reference that cannot be resolved is blanked
pass2_row_nulls(cache, t, original_row) ==
  LET placeholder_fk_val_str == original_row.fk
      parent == parent_config_key(t)
      s == placeholder_fk_val_str.s
      actual_fk_id ==
        IF int_raises(s) \/ int(s) - 1 < 0 \/ parent \notin DOMAIN cache THEN None
        ELSE Get(cache[parent], Int_(int(s) - 1))
  IN  IF parent = "" \/ placeholder_fk_val_str = Blank
      THEN [row |-> original_row, warned |-> FALSE]
      ELSE IF actual_fk_id # None
      THEN [row |-> [original_row EXCEPT !.fk = actual_fk_id], warned |-> FALSE]
      ELSE [row |-> [original_row EXCEPT !.fk = None], warned |-> TRUE]

\* One iteration of the row loop of pass 2 (src/debug.py:307-334): new_row and
\* whether a warning was printed.  Every fk_configs entry has
\* placeholder_is_1_based_index set.
pass2_row(cache, t, original_row) ==
  LET placeholder_fk_val_str == original_row.fk
      parent == parent_config_key(t)
      s == placeholder_fk_val_str.s
      actual_fk_id ==
        IF int_raises(s) \/ int(s) - 1 < 0 \/ parent \notin DOMAIN cache THEN None
        ELSE Get(cache[parent], Int_(int(s) - 1))
  IN  IF parent = "" \/ placeholder_fk_val_str = Blank
      THEN [row |-> original_row, warned |-> FALSE]
      ELSE IF actual_fk_id # None
      THEN [row |-> [original_row EXCEPT !.fk = actual_fk_id], warned |-> FALSE]
      ELSE [row |-> original_row, warned |-> TRUE]

\* what the reconciler leaves alone: the loader is not run
loader_idle ==
  <<others, declared, files, committed, seq, txn, pc, locals, csv_row_to_db_id_maps, pre,
    outcome, loaded, first, warned, commits, published, rollbacks, fatal, run>>

\* the loop `for config_key in PROCESSING_ORDER` moves on, to then_pc after
\* the last table
next_config_key(then_pc) ==
  IF rtbl < Len(processing_order)
  THEN /\ rtbl' = rtbl + 1
       /\ rpc' = rpc
  ELSE /\ rtbl' = 1
       /\ rpc' = then_pc

\* connect_to_db (src/debug.py:219-231) and `if not conn: return`
DebugConnect ==
  /\ rpc = "connect"
  /\ \/ /\ conn' = "open"
        /\ rpc' = "pass1"
     \/ /\ conn' = "none"
        /\ rpc' = "done"
  /\ UNCHANGED <<loader_idle, db, faults, rtbl, actual_id_cache, output, warnings,
                 statements>>

\* pass 1 for one table (src/debug.py:259-282); an exception of the read or
\* of a lookup leaves main(), which has no handler
Pass1Table ==
  /\ rpc = "pass1"
  /\ LET config_key_ == processing_order[rtbl]
         r == read_csv_to_dicts(files[config_key_])
     IN \/ /\ r.raised
           /\ actual_id_cache' = Put(actual_id_cache, config_key_, <<>>)
           /\ rpc' = "raised"
           /\ UNCHANGED <<db, conn, faults, rtbl, warnings, statements>>
        \/ /\ ~r.raised
           /\ LET acc == pass1_rows(db, config_key_, r.data, Len(r.data))
              IN /\ actual_id_cache' = Put(actual_id_cache, config_key_, acc.cache)
                 /\ warnings' = [warnings EXCEPT !.pass1[config_key_] = acc.warned]
                 /\ statements' = statements \cup acc.statements
                 /\ db' = acc.db
           /\ next_config_key("pass2")
           /\ UNCHANGED <<conn, faults>>
        \/ /\ ~r.raised /\ faults < MaxFaults
           /\ \E n \in 1..Len(r.data) :
                /\ queried(config_key_, r.data[n])
                /\ LET acc == pass1_rows(db, config_key_, r.data, n - 1)
                   IN /\ actual_id_cache' = Put(actual_id_cache, config_key_, acc.cache)
                      /\ warnings' = [warnings EXCEPT !.pass1[config_key_] = acc.warned]
                      /\ statements' = statements \cup acc.statements
                                         \cup {pass1_sql(config_key_, r.data[n].key)}
                      /\ db' = acc.db
           /\ conn' = "lost"
           /\ faults' = faults + 1
           /\ rpc' = "raised"
           /\ UNCHANGED rtbl
  /\ UNCHANGED <<loader_idle, output>>

\* pass 2 for one table (src/debug.py:294-339); the datasets are those pass 1
\* has read
Pass2Table ==
  /\ rpc = "pass2"
  /\ LET config_key_ == processing_order[rtbl]
         original_csv_data == read_csv_to_dicts(files[config_key_]).data
         res == [k \in 1..Len(original_csv_data) |->
                   pass2_row(actual_id_cache, config_key_, original_csv_data[k])]
         corrected_rows == [k \in 1..Len(res) |-> res[k].row]
     IN \/ /\ original_csv_data = <<>>
           /\ UNCHANGED <<output, warnings>>
        \/ /\ original_csv_data # <<>>
           /\ output' = [output EXCEPT ![config_key_] = write_dicts_to_csv(corrected_rows)]
           /\ warnings' = [warnings EXCEPT !.pass2[config_key_] =
                             [k \in 1..Len(res) |-> res[k].warned]]
  /\ next_config_key("close")
  /\ UNCHANGED <<loader_idle, db, conn, faults, actual_id_cache, statements>>

\* `if conn: conn.close()` (src/debug.py:341-342): nothing was committed
DebugClose ==
  /\ rpc = "close"
  /\ conn' = "closed"
  /\ db' = committed
  /\ rpc' = "done"
  /\ UNCHANGED <<loader_idle, faults, rtbl, actual_id_cache, output, warnings, statements>>

NextDebug ==
  \/ DebugConnect
  \/ Pass1Table
  \/ Pass2Table
  \/ DebugClose

\* the sinks the reconciler is run against: those of InitialSinks and two an
\* earlier load has left
DebugSinks ==
  InitialSinks \cup
  { [t \in Tables |-> IF t = "Employee"
       THEN {Stored(1, Row(Str(<<"a">>), Str(<<"p">>), Str(<<"x">>), None))}
       ELSE {}],
    [t \in Tables |-> IF t = "Employee"
       THEN {Stored(1, Row(None, None, Str(<<"x">>), None)),
             Stored(2, Row(Str(<<"a">>), Str(<<"p">>), Str(<<"x">>), None))}
       ELSE {}] }

\* the datasets the reconciler is run on: those of the loader, and salary
\* rows with the placeholder "0"
DebugDatasets(t) ==
  Datasets(t) \cup
  { [status |-> "ok", rows |-> r] :
      r \in SeqUpTo(RowsOf(t) \cup
                      (IF t = "Salary"
                       THEN {Row(Blank, Blank, Str(<<"x">>), Str(<<"0">>))} ELSE {}),
                    MaxRows) }

InitDebug ==
  /\ declared = [order |-> csv_mappings, fk |-> fk_configs]
  /\ files \in Files(DebugDatasets("Employee"), DebugDatasets("Salary"))
  /\ committed \in DebugSinks
  /\ InitMain
  /\ rpc = "connect"
  /\ InitReconciler
  /\ OthersIdle

SpecDebug == InitDebug /\ [][NextDebug]_vars


\* C18: the reconciler writes nothing to the sink: every statement it sends is
\* a select, and the rows of the sink, durable and as its connection sees
\* them, are at every moment those of before the run.
C18_ReconcilerReadOnly ==
  /\ \A sql \in statements : sql.kind = "select"
  /\ committed = pre
  /\ db = pre

\* the reconciler has run both passes on a sink that holds rows, has sent
\* lookups and written a corrected dataset
C18_Witness ==
  /\ rpc = "done" /\ conn = "closed"
  /\ pre["Employee"] # {}
  /\ \E sql \in statements : SinkExecute(pre, sql).ids # {}
  /\ output["Salary"] # <<>>


\* pass 1 has been through the whole dataset of table t
Pass1Done(t) ==
  \E k \in 1..Len(processing_order) :
    /\ processing_order[k] = t
    /\ \/ rpc \in {"pass2", "close"}
       \/ rpc = "done" /\ conn = "closed"
       \/ rpc \in {"pass1", "raised"} /\ k < rtbl

\* C20: after pass 1 has been through a table, every source row of it whose
\* table declares a natural key and whose non-blank key is found in the sink
\* has the found identifier in the table's cache under the key and under the
\* row's 0-based ordinal; every other row has no entry under its ordinal, and
\* when the table declares no natural key a warning was printed for the row.
C20_Pass1Cache ==
  \A t \in Tables : Pass1Done(t) =>
    \A k \in 1..Len(files[t].rows) :
      LET natural_key_val == files[t].rows[k].key
          cache == actual_id_cache[t]
          found == {x.id : x \in {y \in pre[t] : y.key = natural_key_val}}
      IN  IF TABLE_CONFIGS[t].natural_key_in_csv /\ natural_key_val # Blank /\ found # {}
          THEN /\ natural_key_val \in DOMAIN cache
               /\ cache[natural_key_val] \in found
               /\ Int_(k - 1) \in DOMAIN cache
               /\ cache[Int_(k - 1)] = cache[natural_key_val]
          ELSE /\ Int_(k - 1) \notin DOMAIN cache
               /\ ~TABLE_CONFIGS[t].natural_key_in_csv => (k - 1) \in warnings.pass1[t]

\* pass 1 is over: a row of the table with a natural key was found in the sink
\* under an identifier that is not its position, another row of it was not
\* found, and a row of the table without natural key was warned about
C20_Witness ==
  /\ rpc = "pass2"
  /\ \E k \in 1..Len(files["Employee"].rows) :
       /\ Int_(k - 1) \in DOMAIN actual_id_cache["Employee"]
       /\ actual_id_cache["Employee"][Int_(k - 1)] # k
  /\ \E k \in 1..Len(files["Employee"].rows) :
       Int_(k - 1) \notin DOMAIN actual_id_cache["Employee"]
  /\ warnings.pass1["Salary"] # {}


\* pass 2 has been through the dataset of table t
Pass2Done(t) ==
  \E k \in 1..Len(processing_order) :
    /\ processing_order[k] = t
    /\ \/ rpc = "close"
       \/ rpc = "done" /\ conn = "closed"
       \/ rpc = "pass2" /\ k < rtbl

\* C19: after pass 2 has been through a table, the corrected dataset holds
\* the rows of the original dataset in the original order; a non-blank
\* foreign-key placeholder that is an integer k >= 1 with an entry for ordinal
\* k - 1 in the parent's cache is replaced by that identifier, every other
\* placeholder is written as it was, with a warning when it is not blank, and
\* the other fields are written as they were.
C19_Pass2Rewrite ==
  \A t \in Tables : Pass2Done(t) =>
    /\ Len(output[t]) = Len(files[t].rows)
    /\ Len(warnings.pass2[t]) = Len(files[t].rows)
    /\ \A k \in 1..Len(files[t].rows) :
         LET original_row == files[t].rows[k]
             p == original_row.fk
             parent == parent_config_key(t)
             resolvable == /\ parent # "" /\ p # Blank
                           /\ decimal(p.s) /\ int(p.s) >= 1
                           /\ Int_(int(p.s) - 1) \in DOMAIN actual_id_cache[parent]
         IN  /\ [output[t][k] EXCEPT !.fk = Blank] = [original_row EXCEPT !.fk = Blank]
             /\ IF resolvable
                THEN /\ output[t][k].fk =
                          Str(str(actual_id_cache[parent][Int_(int(p.s) - 1)]))
                     /\ ~warnings.pass2[t][k]
                ELSE /\ output[t][k].fk = p
                     /\ warnings.pass2[t][k] <=> (parent # "" /\ p # Blank)

\* the reconciler has ended: one row of the child table was written with an
\* identifier other than its placeholder, and one whose placeholder is "0" or
\* no integer was written as it was, with a warning
C19_Witness ==
  /\ rpc = "done" /\ conn = "closed"
  /\ \E t \in Tables : \E k \in 1..Len(output[t]) :
       /\ output[t][k].fk # files[t].rows[k].fk
       /\ ~warnings.pass2[t][k]
  /\ \E t \in Tables : \E k \in 1..Len(output[t]) :
       /\ files[t].rows[k].fk \in {Str(<<"0">>), Str(<<"a", "b", "c">>)}
       /\ output[t][k] = files[t].rows[k]
       /\ warnings.pass2[t][k]


(***************************************************************************)
(* The corrected datasets fed back to the loader: main.py loads and        *)
(* commits, debug.py is run against the sink the load has left and writes  *)
(* data_corrected/, and main.py is run again on the files of that          *)
(* directory (src/debug.py:343-345).                                       *)
(***************************************************************************)
\* debug.py is started after a load that committed
StartDebug ==
  /\ pc = "done" /\ run = 1 /\ conn = "closed" /\ published = 1
  /\ rpc = "idle"
  /\ rpc' = "connect"
  /\ UNCHANGED <<loader_idle, db, conn, faults, rtbl, actual_id_cache, output, warnings,
                 statements>>

\* the file of table t in data_corrected/: pass 2 writes one for every table
\* whose dataset held rows (src/debug.py:336-339)
data_corrected(t) ==
  IF output[t] = <<>> THEN [status |-> "missing", rows |-> <<>>]
  ELSE [status |-> "ok", rows |-> output[t]]

\* main.py is run on the files of data_corrected/, against the sink as the
\* first load left it or against the sink as it was before that load
Feedback ==
  /\ rpc = "done" /\ conn = "closed" /\ run = 1
  /\ files' = [t \in Tables |-> data_corrected(t)]
  /\ first' = [outcome |-> outcome, sink |-> committed, row |-> <<>>]
  /\ \/ UNCHANGED <<committed, db, seq, pre>>
     \/ /\ committed' = pre
        /\ db' = pre
        /\ seq' = [t \in Tables |-> FirstId]
        /\ pre' = pre
  /\ new_run
  /\ UNCHANGED <<others, reconciler, declared>>

NextFeedback ==
  \/ Next
  \/ StartDebug
  \/ NextDebug
  \/ Feedback

SpecFeedback == Init /\ [][NextFeedback]_vars

\* pass 2 replaced the placeholder of row k of table t by an identifier
Resolved(t, k) ==
  /\ parent_config_key(t) # ""
  /\ output[t][k].fk # Blank
  /\ ~warnings.pass2[t][k]

\* C21: when the loader is run on the corrected datasets, every child row
\* whose reference the reconciler resolved is handed to the insert with the
\* parent identifier the reconciler wrote into the row (stated for the runs
\* without sink faults).
C21_FeedbackSameParent ==
  (run = 2 /\ faults = 0 /\ pc = "insert" /\ fk_configs[config_key] # "") =>
    \A j \in 1..Len(raw_csv_data) :
      Resolved(config_key, j)
        => processed_rows_to_insert[j].fk = Int_(int(raw_csv_data[j].fk.s))


(***************************************************************************)
(* alter.py: main() and randomize_order_dates (src/alter.py:41-99).  The   *)
(* "order" table is a function from order_id to order_date, "old" for a    *)
(* date of before the run and "random" for one the run has set.  alter     *)
(* holds the position in the script, the connection, the table as durable  *)
(* (committed) and as the transaction sees it (db), and the locals.        *)
(***************************************************************************)
\* the variables of the loader and of the reconciler
main_vars == <<reconciler, declared, files, sink, conn, pc, locals, csv_row_to_db_id_maps,
               history>>

\* main.py and debug.py are not run
MainIdle ==
  /\ declared = [order |-> csv_mappings, fk |-> fk_configs]
  /\ files = [t \in Tables |-> [status |-> "missing", rows |-> <<>>]]
  /\ committed = [t \in Tables |-> {}]
  /\ InitMain
  /\ rpc = "idle"
  /\ InitReconciler

\* the contents the "order" table may have before the run
OrderTables == UNION {[ids -> {"old"}] : ids \in SUBSET (1..MaxOrders)}

\* the lists fetchall() may return for a table with these ids
Fetches(ids) == {f \in [1..Cardinality(ids) -> ids] : Range(f) = ids}

InitAlter ==
  /\ alter \in { [pc |-> "connect", conn |-> "none", committed |-> o, db |-> o,
                  txn |-> "active", order_ids |-> <<>>, n |-> 0, commits |-> 0,
                  rollbacks |-> 0, faults |-> 0, failed |-> FALSE, pre |-> o] :
                 o \in OrderTables }
  /\ stmt = [pc |-> "idle"]
  /\ geo = [pc |-> "idle"]
  /\ MainIdle

\* a statement of the script fails: the connection is lost, or the sink
\* rejects the statement (lock timeout, deadlock, cancellation) and the
\* transaction is aborted; psycopg2.Error is raised either way
alter_fails(kind) ==
  [alter EXCEPT !.conn = IF kind = "lost" THEN "lost" ELSE @,
                !.txn = "aborted",
                !.faults = @ + 1,
                !.failed = TRUE,
                !.pc = "except"]

\* connect_to_db (src/alter.py:30-39) and `if not conn: return`
AlterConnect ==
  /\ alter.pc = "connect"
  /\ \/ alter' = [alter EXCEPT !.conn = "open", !.pc = "select"]
     \/ alter' = [alter EXCEPT !.pc = "done"]
  /\ UNCHANGED <<stmt, geo, main_vars>>

\* SELECT order_id FROM "order" and `if not order_ids: return`
\* (src/alter.py:57-62)
AlterSelect ==
  /\ alter.pc = "select"
  /\ \/ \E f \in Fetches(DOMAIN alter.db) :
          alter' = [alter EXCEPT !.order_ids = f,
                                 !.pc = IF f = <<>> THEN "finally" ELSE "update"]
     \/ /\ alter.faults < MaxFaults
        /\ \E kind \in {"lost", "error"} : alter' = alter_fails(kind)
  /\ UNCHANGED <<stmt, geo, main_vars>>

\* mutant of AlterUpdate: every update is made durable as it is sent
AlterUpdateAutocommit ==
  /\ alter.pc = "update"
  /\ \/ LET order_id == alter.order_ids[alter.n + 1]
            updated == [alter.db EXCEPT ![order_id] = "random"]
        IN  alter' = [alter EXCEPT !.db = updated,
                                   !.committed = updated,
                                   !.n = @ + 1,
                                   !.pc = IF alter.n + 1 = Len(alter.order_ids)
                                          THEN "commit" ELSE "update"]
     \/ /\ alter.faults < MaxFaults
        /\ \E kind \in {"lost", "error"} : alter' = alter_fails(kind)
  /\ UNCHANGED <<stmt, geo, main_vars>>

\* one iteration of `for i, order_id in enumerate(order_ids)`: the UPDATE of
\* one order (src/alter.py:66-75)
AlterUpdate ==
  /\ alter.pc = "update"
  /\ \/ LET order_id == alter.order_ids[alter.n + 1]
        IN  alter' = [alter EXCEPT !.db[order_id] = "random",
                                   !.n = @ + 1,
                                   !.pc = IF alter.n + 1 = Len(alter.order_ids)
                                          THEN "commit" ELSE "update"]
     \/ /\ alter.faults < MaxFaults
        /\ \E kind \in {"lost", "error"} : alter' = alter_fails(kind)
  /\ UNCHANGED <<stmt, geo, main_vars>>

\* conn.commit() after the loop (src/alter.py:78)
AlterCommit ==
  /\ alter.pc = "commit"
  /\ \/ alter' = [alter EXCEPT !.committed = alter.db, !.commits = @ + 1,
                               !.pc = "finally"]
     \/ /\ alter.faults < MaxFaults
        /\ alter' = alter_fails("lost")
  /\ UNCHANGED <<stmt, geo, main_vars>>

\* `except psycopg2.Error` (src/alter.py:81-85): conn.rollback() discards the
\* transaction; on a lost connection the sink has discarded it already and
\* conn.rollback() raises in its turn
AlterRollback ==
  /\ alter.pc = "except"
  /\ alter' = [alter EXCEPT !.db = alter.committed, !.txn = "active",
                            !.rollbacks = @ + 1,
                            !.pc = IF alter.conn = "lost" THEN "finally_raise"
                                   ELSE "finally"]
  /\ UNCHANGED <<stmt, geo, main_vars>>

\* `finally: if conn: conn.close()` of main() (src/alter.py:96-99); what the
\* transaction had not committed is discarded
AlterClose ==
  /\ alter.pc \in {"finally", "finally_raise"}
  /\ alter' = [alter EXCEPT !.conn = "closed", !.db = alter.committed,
                            !.pc = IF alter.pc = "finally" THEN "done" ELSE "raised"]
  /\ UNCHANGED <<stmt, geo, main_vars>>

NextAlter ==
  \/ AlterConnect
  \/ AlterSelect
  \/ AlterUpdate
  \/ AlterCommit
  \/ AlterRollback
  \/ AlterClose

SpecAlter == InitAlter /\ [][NextAlter]_vars

\* the table with every order_date set by the run
AllUpdated(o) == [id \in DOMAIN o |-> "random"]

\* C23: the durable "order" table is at every moment the table of before the
\* run or that table with every row updated, never a part of the updates; the
\* transaction is committed at most once, after the update of the last row
\* fetched, and then every row is durably updated; once a step has failed the
\* durable table is the one of before the run, and when the script has ended
\* nothing else is visible in the sink.  A run that fetched rows and met no
\* failure has committed.
C23_AlterAtomic ==
  /\ alter.committed \in {alter.pre, AllUpdated(alter.pre)}
  /\ alter.commits <= 1
  /\ alter.commits = 1 =>
       /\ ~alter.failed
       /\ Range(alter.order_ids) = DOMAIN alter.pre
       /\ alter.n = Len(alter.order_ids)
       /\ alter.committed = AllUpdated(alter.pre)
  /\ alter.failed => (alter.committed = alter.pre /\ alter.commits = 0)
  /\ alter.pc \in {"done", "raised"} =>
       /\ alter.db = alter.committed
       /\ alter.conn \in {"closed", "none"}
       /\ (~alter.failed /\ alter.order_ids # <<>>) => alter.commits = 1

\* the script ended after a statement failed when some but not all of the
\* fetched orders had been updated, and none of the updates is in the sink
C23_Witness ==
  /\ alter.pc \in {"done", "raised"} /\ alter.failed
  /\ alter.n >= 1 /\ alter.n < Len(alter.order_ids)
  /\ alter.db = alter.pre


(***************************************************************************)
(* The insert statement of insert_processed_data (src/main.py:100-115) for *)
(* any column map and any row.  csv_to_db_map is the dict as a sequence of *)
(* <<CSV header, database column>> pairs in insertion order; row_dict is a *)
(* function from the headers the row has to their values.                  *)
(***************************************************************************)
\* pairs of "csv_to_db_column_map" entries of csv_mappings; one of them
\* renames its column (Car, src/main.py:337)
MapEntries ==
  { <<"rating_code", "rating_code">>, <<"description", "description">>,
    <<"add_to_wishlist", "add_to_wishlist_count">> }

\* the column maps: every sequence of distinct entries
ColumnMaps ==
  { m \in SeqUpTo(MapEntries, Cardinality(MapEntries)) :
      /\ m # <<>>
      /\ \A j, k \in 1..Len(m) : m[j] = m[k] => j = k }

\* the values a field of a processed row may hold: '', a text, None (a short
\* CSV line, or a foreign key that was not resolved) and a resolved id
FieldValues == {Blank, Str(<<"v">>), None, Int_(7)}

\* the rows: any of the headers may be absent
RowDicts ==
  UNION { [hs -> FieldValues] : hs \in SUBSET {e[1] : e \in MapEntries} }

InitInsert ==
  /\ stmt \in { [pc |-> "columns", csv_to_db_map |-> m, row_dict |-> r,
                 db_columns_to_insert |-> <<>>, values_tuple |-> <<>>] :
                m \in ColumnMaps, r \in RowDicts }
  /\ alter = [pc |-> "idle"]
  /\ geo = [pc |-> "idle"]
  /\ MainIdle

\* list(csv_to_db_map.values())
db_columns_to_insert(csv_to_db_map) ==
  [k \in 1..Len(csv_to_db_map) |-> csv_to_db_map[k][2]]

\* row_dict.get(csv_col_header)
row_get(row_dict, csv_col_header) ==
  IF csv_col_header \in DOMAIN row_dict THEN row_dict[csv_col_header] ELSE None

\* mutant of values_tuple_of: the row is read by database column name
values_tuple_by_column(csv_to_db_map, row_dict) ==
  [k \in 1..Len(csv_to_db_map) |-> normalize(row_get(row_dict, csv_to_db_map[k][2]))]

\* values_tuple as the loop over csv_to_db_map.keys() builds it
\* (src/main.py:109-115); values_tuple above is this list for the four
\* columns of the modelled tables
values_tuple_of(csv_to_db_map, row_dict) ==
  [k \in 1..Len(csv_to_db_map) |-> normalize(row_get(row_dict, csv_to_db_map[k][1]))]

\* the column list of the INSERT is built (src/main.py:100-106)
BuildColumns ==
  /\ stmt.pc = "columns"
  /\ stmt' = [stmt EXCEPT !.db_columns_to_insert = db_columns_to_insert(stmt.csv_to_db_map),
                          !.pc = "values"]
  /\ UNCHANGED <<alter, geo, main_vars>>

\* the values of the row are collected (src/main.py:109-115) and handed to
\* cursor.execute(sql, values_tuple)
BuildValues ==
  /\ stmt.pc = "values"
  /\ stmt' = [stmt EXCEPT !.values_tuple = values_tuple_of(stmt.csv_to_db_map, stmt.row_dict),
                          !.pc = "execute"]
  /\ UNCHANGED <<alter, geo, main_vars>>

NextInsert ==
  \/ BuildColumns
  \/ BuildValues

SpecInsert == InitInsert /\ [][NextInsert]_vars

\* C24: the statement executed for a row names the destination columns of the
\* column map, all of them and no other, in map order, and supplies as many
\* values; the k-th value is the row's value for the source field mapped to
\* the k-th column, NULL when that value is the empty string or the row has no
\* such field.
C24_ColumnMapping ==
  stmt.pc = "execute" =>
    /\ Len(stmt.db_columns_to_insert) = Len(stmt.csv_to_db_map)
    /\ Len(stmt.values_tuple) = Len(stmt.csv_to_db_map)
    /\ \A k \in 1..Len(stmt.csv_to_db_map) :
         LET csv_col_header == stmt.csv_to_db_map[k][1] IN
           /\ stmt.db_columns_to_insert[k] = stmt.csv_to_db_map[k][2]
           /\ stmt.values_tuple[k] =
                IF csv_col_header \notin DOMAIN stmt.row_dict
                     \/ stmt.row_dict[csv_col_header] = Blank
                THEN None
                ELSE stmt.row_dict[csv_col_header]

\* a statement for a map that renames a column and declares it before the
\* others: the row has a text for the renamed field, an empty string for
\* another and lacks the third
C24_Witness ==
  /\ stmt.pc = "execute"
  /\ Len(stmt.csv_to_db_map) = 3
  /\ stmt.db_columns_to_insert[1] = "add_to_wishlist_count"
  /\ stmt.values_tuple[1] = Str(<<"v">>)
  /\ \E j, k \in 2..3 :
       /\ stmt.csv_to_db_map[j][1] \notin DOMAIN stmt.row_dict
       /\ stmt.csv_to_db_map[k][1] \in DOMAIN stmt.row_dict
       /\ stmt.row_dict[stmt.csv_to_db_map[k][1]] = Blank
       /\ stmt.values_tuple[j] = None /\ stmt.values_tuple[k] = None


(***************************************************************************)
(* get_lat_lon of app.py (src/app.py:43-92) and its disk cache.  geo holds *)
(* geocache, the number of geocoder calls made per processed location, and *)
(* the last call of get_lat_lon with what it returned.                     *)
(***************************************************************************)
\* the location strings get_lat_lon is called with
Locations ==
  {"", "Tokyo", " Tokyo ", "In transit to Tokyo", "Port of Osaka", "Atlantis"}

\* processed_location_str (src/app.py:56-72): the string stripped, the city
\* of "In transit to X", the port of "Port of X" with ", Japan" for Osaka and
\* Kyoto
processed_location_str(location_str) ==
  CASE location_str \in {"Tokyo", " Tokyo ", "In transit to Tokyo"} -> "Tokyo"
    [] location_str = "Port of Osaka" -> "Osaka, Japan"
    [] OTHER -> location_str

\* (location.latitude, location.longitude) of a processed location
LatLon(key) == [tag |-> "latlon", of |-> key]

\* geocache.get(key): the value stored, None when there is none
cache_get(geocache, key) == IF key \in DOMAIN geocache THEN geocache[key] ELSE None

InitGeo ==
  /\ geo = [pc |-> "ready",
            geocache |-> [key \in {} |-> None],
            calls |-> [key \in {processed_location_str(l) : l \in Locations \ {""}} |-> 0],
            last |-> [location_str |-> "", returned |-> None, geocoded |-> FALSE]]
  /\ alter = [pc |-> "idle"]
  /\ stmt = [pc |-> "idle"]
  /\ MainIdle

\* one call of get_lat_lon(location_str); answer is what geolocator.geocode
\* does when it is called: it finds the location, finds none, or raises
GetLatLon ==
  /\ geo.pc = "ready"
  /\ \E location_str \in Locations, answer \in {"found", "none", "error"} :
       LET key == processed_location_str(location_str)
           cached_result == cache_get(geo.geocache, key)
           call(returned, geocoded) ==
             [location_str |-> location_str, returned |-> returned, geocoded |-> geocoded]
       IN  IF location_str = ""
           \* `if not location_str ...: return None`
           THEN geo' = [geo EXCEPT !.last = call(None, FALSE)]
           ELSE IF cached_result # None
           \* `if cached_result is not None: return cached_result`
           THEN geo' = [geo EXCEPT !.last = call(cached_result, FALSE)]
           ELSE /\ geo.calls[key] < MaxCalls
                /\ geo' =
                     IF answer = "found"
                     THEN [geo EXCEPT !.geocache = Put(@, key, LatLon(key)),
                                      !.calls[key] = @ + 1,
                                      !.last = call(LatLon(key), TRUE)]
                     ELSE IF answer = "none"
                     THEN [geo EXCEPT !.geocache = Put(@, key, None),
                                      !.calls[key] = @ + 1,
                                      !.last = call(None, TRUE)]
                     ELSE [geo EXCEPT !.calls[key] = @ + 1,
                                      !.last = call(None, TRUE)]
  /\ UNCHANGED <<alter, stmt, main_vars>>

NextGeo ==
  \/ GetLatLon

SpecGeo == InitGeo /\ [][NextGeo]_vars

\* C25: a call of get_lat_lon for a location whose lookup has been cached, a
\* found position or the geocoder's "no location", is answered with the cached
\* result and does not call the geocoder.
C25_CachedBothWays ==
  [][ LET key == processed_location_str(geo'.last.location_str)
      IN  (geo'.last.location_str # "" /\ key \in DOMAIN geo.geocache)
            => /\ ~geo'.last.geocoded
               /\ geo'.last.returned = geo.geocache[key]
               /\ geo'.calls = geo.calls ]_vars


(***************************************************************************)
(* The savepoint names of insert_processed_data (src/main.py:120-123).  A  *)
(* name is a sequence of characters.                                       *)
(***************************************************************************)
\* "db_identifier_for_sql" of every key of csv_mappings
db_identifier_for_sql ==
  [t \in Range(csv_mappings_keys) |->
     CASE t = "Car_Condition_Rating" ->
            <<"c", "a", "r", "_", "c", "o", "n", "d", "i", "t", "i", "o", "n", "_", "r", "a", "t", "i", "n", "g">>
       [] t = "Engine_Type_Lookup" ->
            <<"e", "n", "g", "i", "n", "e", "_", "t", "y", "p", "e", "_", "l", "o", "o", "k", "u", "p">>
       [] t = "Transmission_Type_Lookup" ->
            <<"t", "r", "a", "n", "s", "m", "i", "s", "s", "i", "o", "n", "_", "t", "y", "p", "e", "_", "l", "o", "o", "k", "u", "p">>
       [] t = "Drivetrain_Type_Lookup" ->
            <<"d", "r", "i", "v", "e", "t", "r", "a", "i", "n", "_", "t", "y", "p", "e", "_", "l", "o", "o", "k", "u", "p">>
       [] t = "Auction_Supplier" ->
            <<"a", "u", "c", "t", "i", "o", "n", "_", "s", "u", "p", "p", "l", "i", "e", "r">>
       [] t = "Employee" ->
            <<"e", "m", "p", "l", "o", "y", "e", "e">>
       [] t = "Customer" ->
            <<"c", "u", "s", "t", "o", "m", "e", "r">>
       [] t = "Car" ->
            <<"c", "a", "r">>
       [] t = "Salary" ->
            <<"s", "a", "l", "a", "r", "y">>
       [] t = "Saved_Address" ->
            <<"s", "a", "v", "e", "d", "_", "a", "d", "d", "r", "e", "s", "s">>
       [] t = "Customer_Preference" ->
            <<"c", "u", "s", "t", "o", "m", "e", "r", "_", "p", "r", "e", "f", "e", "r", "e", "n", "c", "e">>
       [] t = "Shopping_Cart" ->
            <<"s", "h", "o", "p", "p", "i", "n", "g", "_", "c", "a", "r", "t">>
       [] t = "Wishlist" ->
            <<"w", "i", "s", "h", "l", "i", "s", "t">>
       [] t = "Search_History" ->
            <<"s", "e", "a", "r", "c", "h", "_", "h", "i", "s", "t", "o", "r", "y">>
       [] t = "Customer_Activity_Log" ->
            <<"c", "u", "s", "t", "o", "m", "e", "r", "_", "a", "c", "t", "i", "v", "i", "t", "y", "_", "l", "o", "g">>
       [] t = "Order" ->
            <<"\"", "o", "r", "d", "e", "r", "\"">>
       [] t = "Cart_Item" ->
            <<"c", "a", "r", "t", "_", "i", "t", "e", "m">>
       [] t = "Wishlist_Item" ->
            <<"w", "i", "s", "h", "l", "i", "s", "t", "_", "i", "t", "e", "m">>
       [] t = "Product_View_History" ->
            <<"p", "r", "o", "d", "u", "c", "t", "_", "v", "i", "e", "w", "_", "h", "i", "s", "t", "o", "r", "y">>
       [] t = "Review" ->
            <<"r", "e", "v", "i", "e", "w">>
       [] t = "Order_Item" ->
            <<"o", "r", "d", "e", "r", "_", "i", "t", "e", "m">>
       [] t = "Payment_Transaction" ->
            <<"p", "a", "y", "m", "e", "n", "t", "_", "t", "r", "a", "n", "s", "a", "c", "t", "i", "o", "n">>
       [] t = "Shipping_Logistics" ->
            <<"s", "h", "i", "p", "p", "i", "n", "g", "_", "l", "o", "g", "i", "s", "t", "i", "c", "s">> ]

\* c.isalnum() for the characters of the identifiers
isalnum(c) ==
  c \in DecDigits \cup {"a", "b", "c", "d", "e", "f", "g", "h", "i", "j", "k", "l", "m",
                        "n", "o", "p", "q", "r", "s", "t", "u", "v", "w", "x", "y", "z"}

\* "".join(c if c.isalnum() else "_" for c in db_table_sql_identifier)
safe_table_name_for_sp(db_table_sql_identifier) ==
  [k \in 1..Len(db_table_sql_identifier) |->
     IF isalnum(db_table_sql_identifier[k]) THEN db_table_sql_identifier[k] ELSE "_"]

\* mutant of savepoint_name: the name does not carry the row index
savepoint_name_of_table(db_table_sql_identifier, row) ==
  <<"s", "p", "_", "c", "s", "v", "_">> \o safe_table_name_for_sp(db_table_sql_identifier)

\* f"sp_csv_{safe_table_name_for_sp}_row_{i}"
savepoint_name(db_table_sql_identifier, row) ==
  <<"s", "p", "_", "c", "s", "v", "_">> \o safe_table_name_for_sp(db_table_sql_identifier)
    \o <<"_", "r", "o", "w", "_">> \o str(row)

\* the savepoint names of every table for the row indexes up to MaxIndex
savepoint_names ==
  [t \in Range(csv_mappings_keys) |->
     [row \in 0..MaxIndex |-> savepoint_name(db_identifier_for_sql[t], row)]]

\* the name of the savepoint of row index row of table t
sp(t, row) == savepoint_names[t][row]

\* the names built for the tables of csv_mappings and the row indexes up to
\* MaxIndex differ whenever the table or the row index differs
savepoint_names_distinct ==
  \A t1, t2 \in Range(csv_mappings_keys) : \A i1, i2 \in 0..MaxIndex :
    sp(t1, i1) = sp(t2, i2) => (t1 = t2 /\ i1 = i2)

\* C30: the savepoint names of the configured tables differ for different
\* (table, row index) pairs; in a run, the savepoints issued so far, one per
\* row handled, have pairwise different names, and the name of the savepoint
\* of the row about to be handled, which is the one its handlers roll back to,
\* is the name of no savepoint issued before.
C30_SavepointNamesUnique ==
  /\ savepoint_names_distinct
  /\ \A t1, t2 \in Tables : \A k1 \in 1..Len(outcome[t1]), k2 \in 1..Len(outcome[t2]) :
       sp(t1, k1 - 1) = sp(t2, k2 - 1) => (t1 = t2 /\ k1 = k2)
  /\ (pc = "insert" /\ i < Len(processed_rows_to_insert)) =>
       \A t \in Tables : \A k \in 1..Len(outcome[t]) : sp(config_key, i) # sp(t, k - 1)

\* the second row of the second table is about to be handled after the
\* savepoints of two rows of the first table and of one row of the second
C30_Witness ==
  /\ pc = "insert" /\ tbl = 2 /\ i = 1
  /\ Len(processed_rows_to_insert) = 2
  /\ Len(outcome[csv_mappings[1]]) = 2
  /\ Len(outcome[csv_mappings[2]]) = 1

====
